---- MODULE Spec2Model ----
(***************************************************************************)
(* Local Sensor API (sensor_api.py): a Flask service that stores ESP32     *)
(* sensor readings and events in PostgreSQL through psycopg and reads them *)
(* back.  Each request is handled by a worker; a handler is a sequence of  *)
(* steps (validate and connect, execute the statement, leave the `with`    *)
(* block and answer), so that requests of several workers interleave.      *)
(*                                                                         *)
(* Time is counted in whole hours.  A nullable SQL value / Python None is  *)
(* <<>> and a value v is <<v>>.  A JSON value is a record with a `kind`.   *)
(***************************************************************************)
EXTENDS Integers, Sequences, FiniteSets, TLC

VARIABLES
    now,            \* the server clock, datetime.now(timezone.utc)
    readings,       \* committed rows of table readings, in commit order
    sensor_events,  \* committed rows of table sensor_events, in commit order
    pc,             \* pc[w]: the position of worker w in its handler
    req,            \* req[w]: the request of worker w and the handler's locals
    txn,            \* txn[w]: rows inserted in w's open transaction
    conn,           \* conn[w]: the connection of the handler: none, open, closed
    resp            \* resp[w]: the response w is sending

vars == <<now, readings, sensor_events, pc, req, txn, conn, resp>>

\* ------------------------------------------------------------- bounds

MaxTime == 1        \* the clock runs from 0 to MaxTime
MaxRows == 2        \* rows over both tables

Workers == {"w1", "w2"}
SeqWorker == "w1"

\* ---------------------------------------------------------- constants

DefaultHours == 24
DefaultLimit == 50

\* --------------------------------------------------------------- JSON

None == <<>>
Some(v) == <<v>>

Absent == [kind |-> "absent"]
JNull == [kind |-> "null"]
JBool(b) == [kind |-> "bool", b |-> b]
JNum(n) == [kind |-> "num", n |-> n]
JStr(s) == [kind |-> "str", s |-> s]      \* a string held as an atom
JText(cs) == [kind |-> "text", cs |-> cs]  \* a string held as its pieces
JArr(s) == [kind |-> "arr", items |-> s]

Keys == {"device", "co2", "temp", "humidity", "readings", "ts",
         "event_type", "message", "uptime"}

JObj(f) == [kind |-> "obj",
            v |-> [k \in Keys |-> IF k \in DOMAIN f THEN f[k] ELSE Absent]]

EmptyObj == JObj([k \in {} |-> Absent])

\* Python truthiness of a parsed JSON value (`if not data`, `if not device`).
Truthy(j) ==
    CASE j.kind = "absent" -> FALSE
      [] j.kind = "null" -> FALSE
      [] j.kind = "bool" -> j.b
      [] j.kind = "num" -> j.n # 0
      [] j.kind = "str" -> j.s # ""
      [] j.kind = "text" -> Len(j.cs) > 0
      [] j.kind = "arr" -> Len(j.items) > 0
      [] j.kind = "obj" -> \E k \in Keys : j.v[k].kind # "absent"

\* Only a dict has .get; on any other value the call raises AttributeError.
HasGet(j) == j.kind = "obj"

\* data.get(k): the value, None when the key is missing.
Get(j, k) == IF j.v[k].kind = "absent" THEN JNull ELSE j.v[k]

\* data.get(k, default)
GetOr(j, k, d) == IF j.v[k].kind = "absent" THEN d ELSE j.v[k]

\* What psycopg passes for a numeric column: a number, or NULL for None.
Adapt(j) == IF j.kind = "num" THEN Some(j.n) ELSE None

\* ------------------------------------------------------------ strings

\* A timestamp string is held as <<date and time, offset>>; the date-and-time
\* piece of hour h is IsoHours[h + 1].
IsoHours == << "2026-01-16T00:00:00", "2026-01-16T01:00:00",
               "2026-01-16T02:00:00", "2026-01-16T03:00:00",
               "2026-01-16T04:00:00", "2026-01-16T05:00:00" >>

\* str.replace(old, new): every occurrence is replaced.
str_replace(cs, old, new) ==
    [i \in DOMAIN cs |-> IF cs[i] = old THEN new ELSE cs[i]]

\* datetime.fromisoformat: the hour, or None where it raises ValueError.
\* The strings modelled carry an offset; "Z" is not one fromisoformat reads.
fromisoformat(cs) ==
    IF /\ Len(cs) = 2
       /\ cs[2] = "+00:00"
       /\ \E h \in DOMAIN IsoHours : IsoHours[h] = cs[1]
    THEN Some((CHOOSE h \in DOMAIN IsoHours : IsoHours[h] = cs[1]) - 1)
    ELSE None

\* datetime.isoformat of an aware UTC datetime.
isoformat(t) == << IsoHours[t + 1], "+00:00" >>

\* int(s) of a query parameter: the number, or None where it raises ValueError.
Numerals == << "0", "1", "2", "3" >>

int(s) ==
    IF \E i \in DOMAIN Numerals : Numerals[i] = s
    THEN Some((CHOOSE i \in DOMAIN Numerals : Numerals[i] = s) - 1)
    ELSE IF s = "-1" THEN Some(-1) ELSE None

\* A comparison that keeps the letter case.
LowerCharKept(c) == c

\* SQL LOWER on a string held as its characters.
UpperCase == << "A", "B", "C", "G", "I", "L", "N", "R", "T" >>
LowerCase == << "a", "b", "c", "g", "i", "l", "n", "r", "t" >>

LowerChar(c) ==
    IF \E i \in DOMAIN UpperCase : UpperCase[i] = c
    THEN LowerCase[CHOOSE i \in DOMAIN UpperCase : UpperCase[i] = c]
    ELSE c

LOWER(cs) == [i \in DOMAIN cs |-> LowerChar(cs[i])]

\* SQL  s LIKE '%sub%'
LikeContains(cs, sub) ==
    \E i \in 0..(Len(cs) - Len(sub)) :
        \A j \in 1..Len(sub) : cs[i + j] = sub[j]

calibrat == << "c", "a", "l", "i", "b", "r", "a", "t" >>

\* ---------------------------------------------------------- responses

\* jsonify({'error': msg}), code
JsonError(code, msg) == [status |-> code, kind |-> "error", body |-> msg]

\* jsonify(obj) with status 200 (or the status given)
JsonObject(code, obj) == [status |-> code, kind |-> "object", body |-> obj]

\* jsonify(list)
JsonList(items) == [status |-> 200, kind |-> "list", body |-> items]

\* An exception that leaves the view function: Flask answers 500 with its
\* HTML error page, which carries no error field.
Unhandled == [status |-> 500, kind |-> "html", body |-> "Internal Server Error"]

NoResp == [status |-> 0, kind |-> "none", body |-> ""]

\* ----------------------------------------------------------- requests

NoArgs == [device |-> None, hours |-> None, limit |-> None, type |-> None]

NoReq == [op |-> "none", at |-> 0, body |-> Absent, args |-> NoArgs,
          fail |-> "none", device |-> "", values |-> <<>>, cutoff |-> 0,
          limit |-> 0, event_type |-> None, result |-> <<>>]

\* req[w].fail records where storage failed during the request: "none",
\* "connect", "execute" or "commit".  Any storage call may fail.

Idle(w) == pc[w] = "idle"

Init ==
    /\ now = 0
    /\ readings = <<>>
    /\ sensor_events = <<>>
    /\ pc = [w \in Workers |-> "idle"]
    /\ req = [w \in Workers |-> NoReq]
    /\ txn = [w \in Workers |-> <<>>]
    /\ conn = [w \in Workers |-> "none"]
    /\ resp = [w \in Workers |-> NoResp]

\* The request is answered before any connection is opened.
Answer(w, r, response) ==
    /\ pc' = [pc EXCEPT ![w] = "done"]
    /\ req' = [req EXCEPT ![w] = r]
    /\ txn' = [txn EXCEPT ![w] = <<>>]
    /\ conn' = [conn EXCEPT ![w] = "none"]
    /\ resp' = [resp EXCEPT ![w] = response]
    /\ UNCHANGED <<now, readings, sensor_events>>

\* get_db(): psycopg.connect, entering `with get_db() as conn`.  A failure
\* to connect is raised inside the handler's try and answered with 500.
Connect(w, r, failure) ==
    \/ Answer(w, [r EXCEPT !.fail = "connect"], failure)
    \/ /\ pc' = [pc EXCEPT ![w] = "open"]
       /\ req' = [req EXCEPT ![w] = r]
       /\ txn' = [txn EXCEPT ![w] = <<>>]
       /\ conn' = [conn EXCEPT ![w] = "open"]
       /\ resp' = [resp EXCEPT ![w] = NoResp]
       /\ UNCHANGED <<now, readings, sensor_events>>

\* An exception raised inside the `with` block: a storage failure of the
\* statement ("execute") or an error of the handler's own code ("code").
Raise(w, why) ==
    /\ pc' = [pc EXCEPT ![w] = "exc"]
    /\ req' = [req EXCEPT ![w].fail = why]

\* -------------------------------------------------------------- rows

\* The INSERT with temp and humidity in each other's place.
ReadingRowSwapped(device, co2, temp, humidity, created_at) ==
    [device |-> device, co2 |-> co2, temp |-> humidity, humidity |-> temp,
     created_at |-> created_at]

ReadingRow(device, co2, temp, humidity, created_at) ==
    [device |-> device, co2 |-> co2, temp |-> temp, humidity |-> humidity,
     created_at |-> created_at]

EventRow(device, event_type, message, uptime, created_at) ==
    [device |-> device, event_type |-> event_type, message |-> message,
     uptime_seconds |-> uptime, created_at |-> created_at]

\* A text column: the string, or NULL for None.
AdaptStr(j) ==
    IF j.kind = "str" THEN Some(j.s)
    ELSE IF j.kind = "text" THEN Some(j.cs) ELSE None

\* Rows that requests in flight may still insert, and the rows a request
\* may insert: the model accepts a POST only while MaxRows leaves room.
BatchLen(rs) == IF rs.kind = "arr" THEN Len(rs.items) ELSE 0

Pending(w) ==
    IF Idle(w) THEN 0
    ELSE IF req[w].op = "receive_batch"
         THEN BatchLen(Get(req[w].body, "readings"))
    ELSE IF req[w].op \in {"receive_single", "receive_event"} THEN 1
    ELSE 0

RECURSIVE SumPending(_)
SumPending(ws) ==
    IF ws = {} THEN 0
    ELSE LET w == CHOOSE x \in ws : TRUE
         IN Pending(w) + SumPending(ws \ {w})

Room(n) ==
    Len(readings) + Len(sensor_events) + SumPending(Workers) + n <= MaxRows

NewReq(op, body, args) ==
    [NoReq EXCEPT !.op = op, !.at = now, !.body = body, !.args = args]

\* ------------------------------------------------------ POST /api/sensor

receive_single(w, body) ==
    /\ Idle(w)
    /\ Room(1)
    /\ LET r == NewReq("receive_single", body, NoArgs)
           data == body
       IN IF ~Truthy(data)
          THEN Answer(w, r, JsonError(400, "No JSON data"))
          ELSE IF ~HasGet(data)
          THEN Answer(w, r, Unhandled)
          ELSE LET device == Get(data, "device")
               IN IF ~Truthy(device)
                  THEN Answer(w, r, JsonError(400, "Missing device name"))
                  ELSE Connect(w, [r EXCEPT !.device = device.s],
                               JsonError(500, "connection failed"))

\* cur.execute(INSERT INTO readings (device, co2, temp, humidity)); the
\* column created_at takes its default, the time of the insert.
receive_single_execute(w) ==
    /\ pc[w] = "open"
    /\ req[w].op = "receive_single"
    /\ LET r == req[w]
           data == r.body
           row == ReadingRow(r.device, Adapt(Get(data, "co2")),
                             Adapt(Get(data, "temp")),
                             Adapt(Get(data, "humidity")), now)
       IN \/ /\ Raise(w, "execute")
             /\ UNCHANGED txn
          \/ /\ pc' = [pc EXCEPT ![w] = "ok"]
             /\ txn' = [txn EXCEPT ![w] = Append(txn[w], row)]
             /\ UNCHANGED req
    /\ UNCHANGED <<now, readings, sensor_events, conn, resp>>

\* ------------------------------------------------ POST /api/sensor/batch

receive_batch(w, body) ==
    /\ Idle(w)
    /\ LET r == NewReq("receive_batch", body, NoArgs)
           data == body
       IN IF ~Truthy(data)
          THEN Answer(w, r, JsonError(400, "No JSON data"))
          ELSE IF ~HasGet(data)
          THEN Answer(w, r, Unhandled)
          ELSE LET device == Get(data, "device")
                   rs == GetOr(data, "readings", JArr(<<>>))
               IN IF ~Truthy(device)
                  THEN Answer(w, r, JsonError(400, "Missing device name"))
                  ELSE IF ~Truthy(rs)
                  THEN Answer(w, r, JsonError(400, "No readings provided"))
                  ELSE /\ Room(BatchLen(rs))
                       /\ Connect(w, [r EXCEPT !.device = device.s],
                                  JsonError(500, "connection failed"))

\* r.get('ts') of a reading that is no dict, and ts.replace of a ts that is
\* truthy and no string, raise AttributeError.
ReadingRaises(rd) ==
    \/ ~HasGet(rd)
    \/ /\ Truthy(Get(rd, "ts"))
       /\ Get(rd, "ts").kind # "text"

\* created_at of one reading.
ReadingCreatedAt(rd, t) ==
    LET ts == Get(rd, "ts")
    IN IF Truthy(ts)
       THEN LET parsed == fromisoformat(str_replace(ts.cs, "Z", "+00:00"))
            IN IF parsed # None THEN parsed[1] ELSE t
       ELSE t

BatchValues(device, rs, t) ==
    [i \in DOMAIN rs |->
        ReadingRow(device, Adapt(Get(rs[i], "co2")), Adapt(Get(rs[i], "temp")),
                   Adapt(Get(rs[i], "humidity")), ReadingCreatedAt(rs[i], t))]

\* `for r in readings` over a value that is no list raises as well: a
\* number is not iterable, and the items of a string or a dict have no .get.
BatchRaises(rs) ==
    \/ rs.kind # "arr"
    \/ \E i \in DOMAIN rs.items : ReadingRaises(rs.items[i])

\* The loop that prepares `values`, inside the `with` block.
receive_batch_values(w) ==
    /\ pc[w] = "open"
    /\ req[w].op = "receive_batch"
    /\ LET r == req[w]
           rs == Get(r.body, "readings")
       IN IF BatchRaises(rs)
          THEN Raise(w, "code")
          ELSE /\ pc' = [pc EXCEPT ![w] = "many"]
               /\ req' = [req EXCEPT ![w].values = BatchValues(r.device, rs.items, now)]
    /\ UNCHANGED <<now, readings, sensor_events, txn, conn, resp>>

\* cur.executemany: one INSERT per element of `values`, in the transaction
\* of the connection; a storage failure may hit any of them.
receive_batch_executemany(w) ==
    /\ pc[w] = "many"
    /\ LET r == req[w]
           i == Len(txn[w]) + 1
           more == i < Len(r.values)
       IN \/ /\ Raise(w, "execute")
             /\ UNCHANGED txn
          \/ /\ txn' = [txn EXCEPT ![w] = Append(txn[w], r.values[i])]
             /\ pc' = [pc EXCEPT ![w] = IF more THEN "many" ELSE "ok"]
             /\ UNCHANGED req
    /\ UNCHANGED <<now, readings, sensor_events, conn, resp>>

\* -------------------------------------------------- POST /api/sensor/log

receive_event(w, body) ==
    /\ Idle(w)
    /\ Room(1)
    /\ LET r == NewReq("receive_event", body, NoArgs)
           data == body
       IN IF ~Truthy(data)
          THEN Answer(w, r, JsonError(400, "No JSON data"))
          ELSE IF ~HasGet(data)
          THEN Answer(w, r, Unhandled)
          ELSE LET device == Get(data, "device")
               IN IF ~Truthy(device)
                  THEN Answer(w, r, JsonError(400, "Missing device name"))
                  ELSE Connect(w, [r EXCEPT !.device = device.s],
                               JsonError(500, "connection failed"))

receive_event_execute(w) ==
    /\ pc[w] = "open"
    /\ req[w].op = "receive_event"
    /\ LET r == req[w]
           data == r.body
           event_type == GetOr(data, "event_type", JStr("info"))
           message == GetOr(data, "message", JText(<<>>))
           uptime == Get(data, "uptime")
           row == EventRow(r.device, AdaptStr(event_type), AdaptStr(message),
                           Adapt(uptime), now)
       IN \/ /\ Raise(w, "execute")
             /\ UNCHANGED txn
          \/ /\ pc' = [pc EXCEPT ![w] = "ok"]
             /\ txn' = [txn EXCEPT ![w] = Append(txn[w], row)]
             /\ UNCHANGED req
    /\ UNCHANGED <<now, readings, sensor_events, conn, resp>>

\* ---------------------------------------------------------------- SQL

Min(a, b) == IF a <= b THEN a ELSE b

\* Indices of the rows of a table that satisfy WHERE; matches[i] tells
\* whether row i satisfies the condition.
Where(table, matches) == {i \in DOMAIN table : matches[i]}

\* A sort that ignores DESC.
OrderByAscending(table, idx, desc) ==
    LET n == Cardinality(idx)
    IN {p \in [1..n -> idx] :
          \A i, j \in 1..n :
             i < j => /\ p[i] # p[j]
                      /\ table[p[i]].created_at <= table[p[j]].created_at}

\* ORDER BY created_at ASC / DESC over the rows at idx: every order of the
\* indices the sort allows (rows of equal created_at come in any order).
OrderBy(table, idx, desc) ==
    LET n == Cardinality(idx)
    IN {p \in [1..n -> idx] :
          \A i, j \in 1..n :
             i < j => /\ p[i] # p[j]
                      /\ IF desc
                         THEN table[p[i]].created_at >= table[p[j]].created_at
                         ELSE table[p[i]].created_at <= table[p[j]].created_at}

\* LIMIT n
Limit(p, n) == SubSeq(p, 1, Min(n, Len(p)))

\* The window taken forward instead of back.
CutoffForward(t, hours) == t + hours

\* cutoff = datetime.now(timezone.utc) - timedelta(hours=hours)
Cutoff(t, hours) == t - hours

\* request.args.get(name): truthiness of a query parameter.
ArgTruthy(a) == a # None /\ a[1] # ""

\* int(request.args.get(name, default))
IntArg(a, default) == IF a = None THEN Some(default) ELSE int(a[1])

\* --------------------------------------------------------- GET /health

health(w) ==
    /\ Idle(w)
    /\ Connect(w, NewReq("health", Absent, NoArgs),
               JsonObject(500, [status |-> "error",
                                database |-> "connection failed"]))

\* cur.execute('SELECT 1')
health_execute(w) ==
    /\ pc[w] = "open"
    /\ req[w].op = "health"
    /\ \/ Raise(w, "execute")
       \/ /\ pc' = [pc EXCEPT ![w] = "ok"]
          /\ UNCHANGED req
    /\ UNCHANGED <<now, readings, sensor_events, txn, conn, resp>>

\* ----------------------------------------------------- GET /api/sensor

get_readings(w, args) ==
    /\ Idle(w)
    /\ LET r == NewReq("get_readings", Absent, args)
           device == args.device
           hours == IntArg(args.hours, DefaultHours)
       IN IF ~ArgTruthy(device)
          THEN Answer(w, r, JsonError(400, "Missing device parameter"))
          ELSE IF hours = None
          THEN Answer(w, r, Unhandled)
          ELSE Connect(w, [r EXCEPT !.device = device[1],
                                    !.cutoff = Cutoff(now, hours[1])],
                       JsonError(500, "connection failed"))

\* SELECT co2, temp, humidity, created_at FROM readings
\* WHERE device = %s AND created_at >= %s ORDER BY created_at ASC
SelectReadings(table, device, cutoff) ==
    LET Match(row) == row.device = device /\ row.created_at >= cutoff
    IN {[i \in DOMAIN p |->
            [co2 |-> table[p[i]].co2, temp |-> table[p[i]].temp,
             humidity |-> table[p[i]].humidity,
             created_at |-> table[p[i]].created_at]] :
        p \in OrderBy(table, Where(table, [i \in DOMAIN table |-> Match(table[i])]), FALSE)}

get_readings_execute(w) ==
    /\ pc[w] = "open"
    /\ req[w].op = "get_readings"
    /\ \/ Raise(w, "execute")
       \/ /\ pc' = [pc EXCEPT ![w] = "ok"]
          /\ \E rows \in SelectReadings(readings, req[w].device, req[w].cutoff) :
                  req' = [req EXCEPT ![w].result = rows]
    /\ UNCHANGED <<now, readings, sensor_events, txn, conn, resp>>

\* float(x) keeps the value of a number.
float(x) == x

get_readings_response(rows) ==
    JsonList([i \in DOMAIN rows |->
        [co2 |-> rows[i].co2,
         temp |-> IF rows[i].temp # None THEN Some(float(rows[i].temp[1])) ELSE None,
         humidity |-> IF rows[i].humidity # None
                      THEN Some(float(rows[i].humidity[1])) ELSE None,
         ts |-> isoformat(rows[i].created_at)]])

\* ------------------------------------------------- GET /api/sensor/log

get_events(w, args) ==
    /\ Idle(w)
    /\ LET r == NewReq("get_events", Absent, args)
           device == args.device
           hours == IntArg(args.hours, DefaultHours)
           limit == IntArg(args.limit, DefaultLimit)
           event_type == args.type
       IN IF ~ArgTruthy(device)
          THEN Answer(w, r, JsonError(400, "Missing device parameter"))
          ELSE IF hours = None \/ limit = None
          THEN Answer(w, r, Unhandled)
          ELSE Connect(w, [r EXCEPT !.device = device[1],
                                    !.cutoff = Cutoff(now, hours[1]),
                                    !.limit = limit[1],
                                    !.event_type = event_type],
                       JsonError(500, "connection failed"))

\* SELECT event_type, message, uptime_seconds, created_at FROM sensor_events
\* WHERE device = %s AND created_at >= %s [AND event_type = %s]
\* ORDER BY created_at DESC LIMIT %s
SelectEvents(table, device, cutoff, event_type, limit) ==
    LET Match(row) ==
            /\ row.device = device
            /\ row.created_at >= cutoff
            /\ ArgTruthy(event_type) => row.event_type = Some(event_type[1])
    IN {[i \in DOMAIN Limit(p, limit) |->
            [event_type |-> table[p[i]].event_type,
             message |-> table[p[i]].message,
             uptime_seconds |-> table[p[i]].uptime_seconds,
             created_at |-> table[p[i]].created_at]] :
        p \in OrderBy(table, Where(table, [i \in DOMAIN table |-> Match(table[i])]), TRUE)}

\* PostgreSQL rejects a negative LIMIT: the statement fails.
get_events_execute(w) ==
    /\ pc[w] = "open"
    /\ req[w].op = "get_events"
    /\ \/ Raise(w, "execute")
       \/ /\ req[w].limit >= 0
          /\ pc' = [pc EXCEPT ![w] = "ok"]
          /\ \E rows \in SelectEvents(sensor_events, req[w].device, req[w].cutoff,
                                        req[w].event_type, req[w].limit) :
                  req' = [req EXCEPT ![w].result = rows]
    /\ UNCHANGED <<now, readings, sensor_events, txn, conn, resp>>

get_events_response(rows) ==
    JsonList([i \in DOMAIN rows |->
        [event_type |-> rows[i].event_type,
         message |-> rows[i].message,
         uptime |-> rows[i].uptime_seconds,
         heap |-> None,
         total_measurements |-> None,
         ts |-> isoformat(rows[i].created_at)]])

\* ----------------------------------------- GET /api/sensor/calibration

get_last_calibration(w, args) ==
    /\ Idle(w)
    /\ LET r == NewReq("get_last_calibration", Absent, args)
           device == args.device
       IN IF ~ArgTruthy(device)
          THEN Answer(w, r, JsonError(400, "Missing device parameter"))
          ELSE Connect(w, [r EXCEPT !.device = device[1]],
                       JsonError(500, "connection failed"))

\* WHERE device = %s AND LOWER(message) LIKE '%calibrat%'; a NULL message
\* matches nothing.
IsCalibration(row, device) ==
    /\ row.device = device
    /\ row.message # None
    /\ LikeContains(LOWER(row.message[1]), calibrat)

\* SELECT created_at FROM sensor_events WHERE ...
\* ORDER BY created_at DESC LIMIT 1, then cur.fetchone()
SelectCalibration(table, device) ==
    LET Match(row) == IsCalibration(row, device)
    IN {[i \in DOMAIN Limit(p, 1) |-> [created_at |-> table[p[i]].created_at]] :
        p \in OrderBy(table, Where(table, [i \in DOMAIN table |-> Match(table[i])]), TRUE)}

get_last_calibration_execute(w) ==
    /\ pc[w] = "open"
    /\ req[w].op = "get_last_calibration"
    /\ \/ Raise(w, "execute")
       \/ /\ pc' = [pc EXCEPT ![w] = "ok"]
          /\ \E rows \in SelectCalibration(sensor_events, req[w].device) :
                  req' = [req EXCEPT ![w].result = rows]
    /\ UNCHANGED <<now, readings, sensor_events, txn, conn, resp>>

\* `if row and row[0]`: a datetime is always truthy.
get_last_calibration_response(rows) ==
    IF Len(rows) > 0
    THEN JsonObject(200, [date |-> Some(isoformat(rows[1].created_at))])
    ELSE JsonObject(200, [date |-> None])

\* ----------------------------------------------- GET /api/sensor/stats

get_stats(w, args) ==
    /\ Idle(w)
    /\ LET r == NewReq("get_stats", Absent, args)
           device == args.device
           hours == IntArg(args.hours, DefaultHours)
       IN IF ~ArgTruthy(device)
          THEN Answer(w, r, JsonError(400, "Missing device parameter"))
          ELSE IF hours = None
          THEN Answer(w, r, Unhandled)
          ELSE Connect(w, [r EXCEPT !.device = device[1],
                                    !.cutoff = Cutoff(now, hours[1])],
                       JsonError(500, "connection failed"))

RECURSIVE SumOver(_, _)
SumOver(f, S) ==
    IF S = {} THEN 0
    ELSE LET i == CHOOSE x \in S : TRUE
         IN f[i] + SumOver(f, S \ {i})

\* AVG, MIN and MAX of a column ignore NULL and are NULL over no value.
\* An average is held as the fraction num / den.
AVG(col, idx) ==
    LET S == {i \in idx : col[i] # None}
    IN IF S = {} THEN None
       ELSE Some([num |-> SumOver([i \in S |-> col[i][1]], S),
                  den |-> Cardinality(S)])

MIN(col, idx) ==
    LET S == {i \in idx : col[i] # None}
    IN IF S = {} THEN None
       ELSE Some(CHOOSE v \in {col[i][1] : i \in S} :
                    \A i \in S : v <= col[i][1])

MAX(col, idx) ==
    LET S == {i \in idx : col[i] # None}
    IN IF S = {} THEN None
       ELSE Some(CHOOSE v \in {col[i][1] : i \in S} :
                    \A i \in S : v >= col[i][1])

\* SELECT COUNT(*), AVG(co2), MIN(co2), MAX(co2), ... FROM readings
\* WHERE device = %s AND created_at >= %s
SelectStats(table, device, cutoff) ==
    LET Match(row) == row.device = device /\ row.created_at >= cutoff
        idx == Where(table, [i \in DOMAIN table |-> Match(table[i])])
        co2 == [i \in DOMAIN table |-> table[i].co2]
        temp == [i \in DOMAIN table |-> table[i].temp]
        humidity == [i \in DOMAIN table |-> table[i].humidity]
    IN [count |-> Cardinality(idx),
        avg_co2 |-> AVG(co2, idx), min_co2 |-> MIN(co2, idx),
        max_co2 |-> MAX(co2, idx),
        avg_temp |-> AVG(temp, idx), min_temp |-> MIN(temp, idx),
        max_temp |-> MAX(temp, idx),
        avg_humidity |-> AVG(humidity, idx), min_humidity |-> MIN(humidity, idx),
        max_humidity |-> MAX(humidity, idx)]

get_stats_execute(w) ==
    /\ pc[w] = "open"
    /\ req[w].op = "get_stats"
    /\ \/ Raise(w, "execute")
       \/ /\ pc' = [pc EXCEPT ![w] = "ok"]
          /\ req' = [req EXCEPT ![w].result =
                          << SelectStats(readings, req[w].device, req[w].cutoff) >>]
    /\ UNCHANGED <<now, readings, sensor_events, txn, conn, resp>>

\* `float(x) if x else None` on an average: None for NULL and for zero.
FloatIfAvg(a) == IF a # None /\ a[1].num # 0 THEN Some(float(a[1])) ELSE None

\* `float(x) if x else None` on a minimum or maximum.
FloatIf(v) == IF v # None /\ v[1] # 0 THEN Some(float(v[1])) ELSE None

get_stats_response(row) ==
    IF row.count > 0
    THEN JsonObject(200,
           [count |-> row.count,
            co2 |-> Some([avg |-> FloatIfAvg(row.avg_co2),
                          min |-> row.min_co2, max |-> row.max_co2]),
            temp |-> Some([avg |-> FloatIfAvg(row.avg_temp),
                           min |-> FloatIf(row.min_temp),
                           max |-> FloatIf(row.max_temp)]),
            humidity |-> Some([avg |-> FloatIfAvg(row.avg_humidity),
                               min |-> FloatIf(row.min_humidity),
                               max |-> FloatIf(row.max_humidity)])])
    ELSE JsonObject(200, [count |-> 0, co2 |-> None, temp |-> None,
                          humidity |-> None])

\* ------------------------------------------- leaving the `with` block

\* A connection in autocommit: every executed row stays.
with_exit_table_autocommit(table, rows, committed) == table \o rows

\* A commit that overwrites the table with the rows of the transaction.
with_exit_table_overwrite(table, rows, committed) ==
    IF committed /\ rows # <<>> THEN rows ELSE table

\* A connection closed on the normal path only (conn.close() after the
\* statement, without `with`).
with_exit_conn_leak(c, raised) == IF raised THEN c ELSE "closed"

\* Connection.__exit__: commit when the block ended normally, rollback when
\* it raised; the rows of the transaction reach the table on commit only.
with_exit_table(table, rows, committed) ==
    IF committed THEN table \o rows ELSE table

\* Connection.__exit__ closes the connection on either path.
with_exit_conn(c, raised) == "closed"

\* What the handler returns after the block.
Success(r) ==
    CASE r.op = "health" ->
            JsonObject(200, [status |-> "ok", database |-> "connected"])
      [] r.op = "receive_single" -> JsonObject(200, [status |-> "ok"])
      [] r.op = "receive_batch" ->
            JsonObject(200, [status |-> "ok",
                             stored |-> Len(Get(r.body, "readings").items)])
      [] r.op = "receive_event" -> JsonObject(200, [status |-> "ok"])
      [] r.op = "get_readings" -> get_readings_response(r.result)
      [] r.op = "get_events" -> get_events_response(r.result)
      [] r.op = "get_last_calibration" -> get_last_calibration_response(r.result)
      [] r.op = "get_stats" -> get_stats_response(r.result[1])

\* `except Exception as e`
Failure(r, msg) ==
    IF r.op = "health"
    THEN JsonObject(500, [status |-> "error", database |-> msg])
    ELSE JsonError(500, msg)

with_exit(w) ==
    /\ pc[w] \in {"ok", "exc"}
    /\ LET r == req[w]
           raised == pc[w] = "exc"
       IN \E committed \in IF raised THEN {FALSE} ELSE BOOLEAN :
          /\ readings' = IF r.op \in {"receive_single", "receive_batch"}
                         THEN with_exit_table(readings, txn[w], committed)
                         ELSE readings
          /\ sensor_events' = IF r.op = "receive_event"
                              THEN with_exit_table(sensor_events, txn[w], committed)
                              ELSE sensor_events
          /\ txn' = [txn EXCEPT ![w] = <<>>]
          /\ conn' = [conn EXCEPT ![w] = with_exit_conn(conn[w], raised)]
          /\ req' = [req EXCEPT ![w].fail =
                        IF raised \/ committed THEN @ ELSE "commit"]
          /\ resp' = [resp EXCEPT ![w] =
                        IF committed THEN Success(r)
                        ELSE Failure(r, IF r.fail = "code" THEN "AttributeError"
                                        ELSE IF raised THEN "statement failed"
                                        ELSE "commit failed")]
          /\ pc' = [pc EXCEPT ![w] = "done"]
    /\ UNCHANGED now

\* The response has been sent; the worker waits for its next request and
\* keeps nothing of the last one.
send_response(w) ==
    /\ pc[w] = "done"
    /\ pc' = [pc EXCEPT ![w] = "idle"]
    /\ req' = [req EXCEPT ![w] = NoReq]
    /\ resp' = [resp EXCEPT ![w] = NoResp]
    /\ conn' = [conn EXCEPT ![w] = "none"]
    /\ UNCHANGED <<now, readings, sensor_events, txn>>

\* ------------------------------------------------------------ the clock

Tick ==
    /\ now < MaxTime
    /\ now' = now + 1
    /\ UNCHANGED <<readings, sensor_events, pc, req, txn, conn, resp>>

\* --------------------------------------------------------------- inputs

Office == JStr("office")
Lab == JStr("lab")

\* Bodies of POST /api/sensor.
RejectedBodies ==
    { JNull, EmptyObj, JArr(<<JNum(1)>>),
      JObj([co2 |-> JNum(800)]),
      JObj([device |-> JStr(""), co2 |-> JNum(800)]) }

SingleBodies ==
    RejectedBodies \cup
    { JObj([device |-> Office, co2 |-> JNum(800), temp |-> JNum(1),
            humidity |-> JNum(45)]),
      JObj([device |-> Office, co2 |-> JNum(0), temp |-> JNum(0)]),
      JObj([device |-> Office, temp |-> JNum(-1), humidity |-> JNull]),
      JObj([device |-> Lab, co2 |-> JNum(800), temp |-> JNum(1),
            humidity |-> JNum(45)]) }

CoreSingleBodies ==
    { JArr(<<JNum(1)>>), JObj([co2 |-> JNum(800)]),
      JObj([device |-> Office, co2 |-> JNum(800), temp |-> JNum(1),
            humidity |-> JNum(45)]) }

\* Values of ts in a reading of a batch.
TsHour1Z == JText(<< IsoHours[2], "Z" >>)
TsHour0 == JText(<< IsoHours[1], "+00:00" >>)
TsWords == JText(<< "yesterday" >>)
TsNumber == JNum(1768564800)

\* Bodies of POST /api/sensor/batch.
BatchBodies ==
    { JNull,
      JObj([readings |-> JArr(<< JObj([co2 |-> JNum(700)]) >>)]),
      JObj([device |-> JNull, readings |-> JNum(5)]),
      JObj([device |-> Office]),
      JObj([device |-> Office, readings |-> JArr(<<>>)]),
      JObj([device |-> Office, readings |-> JNum(5)]),
      JObj([device |-> Office,
            readings |-> JArr(<< JObj([co2 |-> JNum(700), ts |-> TsHour1Z]),
                                 JObj([co2 |-> JNum(710)]) >>)]),
      JObj([device |-> Office,
            readings |-> JArr(<< JObj([temp |-> JNum(-1), ts |-> TsWords]),
                                 JObj([temp |-> JNum(1), ts |-> JText(<<>>)]) >>)]),
      JObj([device |-> Office,
            readings |-> JArr(<< JObj([co2 |-> JNum(700), ts |-> TsNumber]) >>)]),
      JObj([device |-> Office,
            readings |-> JArr(<< JObj([co2 |-> JNum(700)]), JNum(5) >>)]),
      JObj([device |-> Lab,
            readings |-> JArr(<< JObj([co2 |-> JNum(0), ts |-> TsHour0]) >>)]) }

CoreBatchBodies ==
    { JObj([readings |-> JArr(<< JObj([co2 |-> JNum(700)]) >>)]),
      JObj([device |-> Office,
            readings |-> JArr(<< JObj([co2 |-> JNum(700), ts |-> TsHour1Z]),
                                 JObj([co2 |-> JNum(710)]) >>)]),
      JObj([device |-> Office,
            readings |-> JArr(<< JObj([co2 |-> JNum(700)]), JNum(5) >>)]) }

\* Messages of events, as their characters.
MsgCalibrated == JText(<< "C", "a", "l", "i", "b", "r", "a", "t", "e", "d" >>)
MsgRecal == JText(<< "r", "e", "C", "A", "L", "I", "B", "R", "A", "T", "i", "n", "g" >>)
MsgCalibra == JText(<< "c", "a", "l", "i", "b", "r", "a" >>)

\* Bodies of POST /api/sensor/log.
EventBodies ==
    { JNull, JArr(<<JNum(1)>>),
      JObj([message |-> MsgCalibrated]),
      JObj([device |-> JStr(""), message |-> MsgCalibrated]),
      JObj([device |-> Office, message |-> MsgCalibrated, uptime |-> JNum(60)]),
      JObj([device |-> Office, event_type |-> JStr("warning"), message |-> MsgRecal]),
      JObj([device |-> Office, event_type |-> JStr("error"), message |-> MsgCalibra]),
      JObj([device |-> Office, message |-> JNull]),
      JObj([device |-> Lab, message |-> MsgCalibrated]) }

CoreEventBodies ==
    { JObj([message |-> MsgCalibrated]),
      JObj([device |-> Office, message |-> MsgCalibrated, uptime |-> JNum(60)]) }

\* Query strings.
ArgDevices == {None, Some(""), Some("office"), Some("lab")}
ArgHours == {None, Some("0"), Some("1"), Some("abc")}
ArgLimits == {None, Some("0"), Some("1"), Some("-1"), Some("abc")}
ArgTypes == {None, Some(""), Some("error")}

Args(devices, hours, limits, types) ==
    [device : devices, hours : hours, limit : limits, type : types]

ReadingsArgs == Args(ArgDevices, ArgHours, {None}, {None})
EventsArgs == Args(ArgDevices, {None, Some("1"), Some("abc")}, ArgLimits, ArgTypes)
CalibrationArgs == Args(ArgDevices, {None}, {None}, {None})
StatsArgs == Args(ArgDevices, ArgHours, {None}, {None})

CoreReadingsArgs == Args({None, Some("office")}, {None, Some("abc")}, {None}, {None})
CoreEventsArgs == Args({None, Some("office")}, {None}, {None, Some("-1")}, {None})
CoreCalibrationArgs == Args({None, Some("office")}, {None}, {None}, {None})
CoreStatsArgs == Args({None, Some("office")}, {None}, {None}, {None})

\* --------------------------------------------------------- specification

\* The steps of a handler after its first.
Continue(w) ==
    \/ health_execute(w)
    \/ receive_single_execute(w)
    \/ receive_batch_values(w)
    \/ receive_batch_executemany(w)
    \/ receive_event_execute(w)
    \/ get_readings_execute(w)
    \/ get_events_execute(w)
    \/ get_last_calibration_execute(w)
    \/ get_stats_execute(w)
    \/ with_exit(w)
    \/ send_response(w)

\* Requests handled concurrently by the workers, over the core inputs.
Next ==
    \/ Tick
    \/ \E w \in Workers :
        \/ health(w)
        \/ \E b \in CoreSingleBodies : receive_single(w, b)
        \/ \E b \in CoreBatchBodies : receive_batch(w, b)
        \/ \E b \in CoreEventBodies : receive_event(w, b)
        \/ \E a \in CoreReadingsArgs : get_readings(w, a)
        \/ \E a \in CoreEventsArgs : get_events(w, a)
        \/ \E a \in CoreCalibrationArgs : get_last_calibration(w, a)
        \/ \E a \in CoreStatsArgs : get_stats(w, a)
        \/ Continue(w)

Spec == Init /\ [][Next]_vars

\* One request at a time on the readings table, over all its inputs.
NextReadings ==
    \/ Tick
    \/ \E b \in SingleBodies : receive_single(SeqWorker, b)
    \/ \E b \in BatchBodies : receive_batch(SeqWorker, b)
    \/ \E a \in ReadingsArgs : get_readings(SeqWorker, a)
    \/ \E a \in StatsArgs : get_stats(SeqWorker, a)
    \/ receive_single_execute(SeqWorker)
    \/ receive_batch_values(SeqWorker)
    \/ receive_batch_executemany(SeqWorker)
    \/ get_readings_execute(SeqWorker)
    \/ get_stats_execute(SeqWorker)
    \/ with_exit(SeqWorker)
    \/ send_response(SeqWorker)

SpecReadings == Init /\ [][NextReadings]_vars

\* One request at a time on the sensor_events table, over all its inputs.
NextEvents ==
    \/ Tick
    \/ \E b \in EventBodies : receive_event(SeqWorker, b)
    \/ \E a \in EventsArgs : get_events(SeqWorker, a)
    \/ \E a \in CalibrationArgs : get_last_calibration(SeqWorker, a)
    \/ receive_event_execute(SeqWorker)
    \/ get_events_execute(SeqWorker)
    \/ get_last_calibration_execute(SeqWorker)
    \/ with_exit(SeqWorker)
    \/ send_response(SeqWorker)

SpecEvents == Init /\ [][NextEvents]_vars

\* =============================================================== claims

Inflight(w) == pc[w] \in {"open", "many", "ok", "exc"}

\* The step in which worker w answers its request.
Completes(w) == pc[w] # "done" /\ pc'[w] = "done"

IsPrefix(s, t) == Len(s) <= Len(t) /\ SubSeq(t, 1, Len(s)) = s

DeviceOps == {"receive_single", "receive_batch", "receive_event", "get_readings",
              "get_events", "get_last_calibration", "get_stats"}

PostOps == {"receive_single", "receive_batch", "receive_event"}

\* The JSON body is an object whose device is a non-empty string.
BodyHasDevice(body) ==
    /\ body.kind = "obj"
    /\ body.v["device"].kind = "str"
    /\ body.v["device"].s # ""

\* The request carries no device, or an empty one.
MissingDevice(r) ==
    IF r.op \in PostOps
    THEN ~BodyHasDevice(r.body)
    ELSE r.args.device = None \/ r.args.device = Some("")

\* What the body supplies for a numeric field: the number, else null.
Supplied(obj, k) == IF obj.v[k].kind = "num" THEN Some(obj.v[k].n) ELSE None

StorageFailed(r) == r.fail \in {"connect", "execute", "commit"}

\* ------------------------------------------------------------------ C1
\* C1: on each of the seven endpoints that require a device, a request that
\* carries no device or an empty device is answered with status 400 and an
\* error field, never with 500, whatever else it contains, and it never
\* reaches storage.
C1_MissingDeviceIs400 ==
    \A w \in Workers :
        (req[w].op \in DeviceOps /\ MissingDevice(req[w])) =>
            /\ ~Inflight(w)
            /\ pc[w] = "done" =>
                  /\ resp[w].status = 400
                  /\ resp[w].kind = "error"
                  /\ conn[w] = "none"

\* ------------------------------------------------------------------ C2
\* C2: a POST /api/sensor whose body has a non-empty device is answered
\* {status: "ok"} when storage does not fail, and the answering step appends
\* exactly one row to readings, with that device, the supplied co2, temp and
\* humidity (null where not supplied) and a timestamp taken by the server
\* during the request; when storage fails it is answered 500 with an error
\* field and readings is unchanged.
C2_SingleStoresOneRow ==
    [][\A w \in Workers :
        (Completes(w) /\ req'[w].op = "receive_single"
                      /\ BodyHasDevice(req'[w].body)) =>
            LET r == req'[w]
            IN IF StorageFailed(r)
               THEN /\ resp'[w].status = 500
                    /\ resp'[w].kind = "error"
                    /\ readings' = readings
               ELSE /\ resp'[w] = JsonObject(200, [status |-> "ok"])
                    /\ \E t \in r.at .. now :
                          readings' = Append(readings,
                              [device |-> r.body.v["device"].s,
                               co2 |-> Supplied(r.body, "co2"),
                               temp |-> Supplied(r.body, "temp"),
                               humidity |-> Supplied(r.body, "humidity"),
                               created_at |-> t])
      ]_vars

\* A single reading without humidity has been stored while the clock moved.
C2_Witness ==
    \E w \in Workers :
        /\ pc[w] = "done"
        /\ req[w].op = "receive_single"
        /\ resp[w].status = 200
        /\ req[w].at < now
        /\ Len(readings) >= 1
        /\ readings[Len(readings)].humidity = None
        /\ readings[Len(readings)].temp # None
        /\ readings[Len(readings)].created_at = now

\* ------------------------------------------------------------------ C3
\* C3: a POST /api/sensor/batch with a non-empty device and a non-empty
\* readings array is all-or-nothing: the answering step either answers
\* {status: "ok", stored: n} with n = len(readings) and appends exactly n
\* rows of that device to readings, or answers 500 and leaves readings as it
\* was; the steps that execute the rows of the insert leave readings
\* unchanged, so no number of rows between 0 and n is ever persisted.
C3_BatchAllOrNothing ==
    [][\A w \in Workers :
        LET r == req'[w]
            rs == Get(r.body, "readings")
        IN (r.op = "receive_batch" /\ BodyHasDevice(r.body)
                /\ rs.kind = "arr" /\ Len(rs.items) > 0) =>
             /\ (pc'[w] # pc[w] \/ txn'[w] # txn[w]) /\ pc'[w] # "done"
                    => readings' = readings
             /\ Completes(w) =>
                  LET n == Len(rs.items)
                  IN \/ /\ resp'[w] = JsonObject(200, [status |-> "ok", stored |-> n])
                        /\ Len(readings') = Len(readings) + n
                        /\ IsPrefix(readings, readings')
                        /\ \A i \in 1..n :
                              readings'[Len(readings) + i].device = r.body.v["device"].s
                     \/ /\ resp'[w].status = 500
                        /\ readings' = readings
      ]_vars

\* The multi-row insert has failed after one of its rows was executed.
C3_Witness ==
    \E w \in Workers :
        /\ pc[w] = "exc"
        /\ req[w].op = "receive_batch"
        /\ req[w].fail = "execute"
        /\ Len(txn[w]) >= 1
        /\ Len(txn[w]) < Len(req[w].values)

\* ------------------------------------------------------------------ C4
\* C4: in POST /api/sensor/batch each reading's timestamp is normalized on
\* its own: a valid ISO-8601 ts (a trailing Z read as UTC) is stored as it
\* is, an absent, empty or unparseable ts of any value is replaced by the
\* server's current time, and an unparseable ts never rejects the batch:
\* unless storage fails the request succeeds.
C4_TsNeverRejects ==
    \A w \in Workers :
        LET r == req[w]
            rs == Get(r.body, "readings")
        IN (pc[w] = "done" /\ r.op = "receive_batch" /\ BodyHasDevice(r.body)
               /\ rs.kind = "arr" /\ Len(rs.items) > 0
               /\ (\A i \in DOMAIN rs.items : rs.items[i].kind = "obj")
               /\ ~StorageFailed(r)) =>
             resp[w] = JsonObject(200, [status |-> "ok", stored |-> Len(rs.items)])

\* The lookback and the limit a query asks for.
HoursOf(args) == IF args.hours = None THEN DefaultHours ELSE int(args.hours[1])[1]

LimitOf(args) == IF args.limit = None THEN DefaultLimit ELSE int(args.limit[1])[1]

\* The row is of the device asked for and inside the lookback window, taken
\* from the time the request arrived.
InWindow(row, r) ==
    /\ row.device = r.args.device[1]
    /\ row.created_at >= r.at - HoursOf(r.args)

\* The hour a timestamp of a response stands for.
HourOf(ts) == fromisoformat(ts)[1]

\* ------------------------------------------------------------------ C5
\* A metric of the stats answer over the values of a column that are not
\* null: avg, min and max are there and are the aggregates.
MetricOk(m, col, idx) ==
    LET S == {i \in idx : col[i] # None}
        total == SumOver([i \in S |-> col[i][1]], S)
    IN S # {} =>
         /\ m # None
         /\ m[1].avg # None /\ m[1].min # None /\ m[1].max # None
         /\ \A i \in S : m[1].min[1] <= col[i][1] /\ col[i][1] <= m[1].max[1]
         /\ \E i \in S : m[1].min[1] = col[i][1]
         /\ \E i \in S : m[1].max[1] = col[i][1]
         /\ m[1].avg[1].num * Cardinality(S) = total * m[1].avg[1].den
         /\ m[1].min[1] * m[1].avg[1].den <= m[1].avg[1].num
         /\ m[1].avg[1].num <= m[1].max[1] * m[1].avg[1].den

\* C5: GET /api/sensor/stats answers {count: 0, co2: null, temp: null,
\* humidity: null} when no reading of the device lies in the window;
\* otherwise count is the number of such readings and every metric with a
\* non-null value among them has non-null avg, min and max, equal to the
\* average, minimum and maximum of those values, with min <= avg <= max,
\* also when one of them is 0 or the values are negative.
C5_StatsAreTheAggregates ==
    \A w \in Workers :
        (pc[w] = "done" /\ req[w].op = "get_stats" /\ resp[w].status = 200) =>
            LET idx == {i \in DOMAIN readings : InWindow(readings[i], req[w])}
                body == resp[w].body
            IN IF idx = {}
               THEN body = [count |-> 0, co2 |-> None, temp |-> None,
                            humidity |-> None]
               ELSE /\ body.count = Cardinality(idx)
                    /\ MetricOk(body.co2, [i \in idx |-> readings[i].co2], idx)
                    /\ MetricOk(body.temp, [i \in idx |-> readings[i].temp], idx)
                    /\ MetricOk(body.humidity,
                                [i \in idx |-> readings[i].humidity], idx)

\* ------------------------------------------------------------------ C6
\* C6: GET /api/sensor for a device and a lookback of H hours (default 24)
\* answers exactly the readings of that device with created_at >= now - H,
\* none of another device and none older, oldest first.
C6_ReadingsOfWindowInOrder ==
    \A w \in Workers :
        (pc[w] = "done" /\ req[w].op = "get_readings" /\ resp[w].status = 200) =>
            LET idx == {i \in DOMAIN readings : InWindow(readings[i], req[w])}
                body == resp[w].body
                n == Len(body)
            IN /\ resp[w].kind = "list"
               /\ n = Cardinality(idx)
               /\ \E p \in [1..n -> idx] :
                     /\ \A i, j \in 1..n : i # j => p[i] # p[j]
                     /\ \A i \in 1..n :
                           body[i] = [co2 |-> readings[p[i]].co2,
                                      temp |-> readings[p[i]].temp,
                                      humidity |-> readings[p[i]].humidity,
                                      ts |-> isoformat(readings[p[i]].created_at)]
               /\ \A i, j \in 1..n : i < j => HourOf(body[i].ts) <= HourOf(body[j].ts)

\* Two readings stored newest first are answered oldest first, with a
\* lookback given.
C6_Witness ==
    \E w \in Workers :
        /\ pc[w] = "done"
        /\ req[w].op = "get_readings"
        /\ resp[w].status = 200
        /\ req[w].args.hours # None
        /\ Len(resp[w].body) = 2
        /\ Len(readings) = 2
        /\ readings[1].created_at > readings[2].created_at
        /\ HourOf(resp[w].body[1].ts) < HourOf(resp[w].body[2].ts)

\* A reading older than the window is left out.
C6_WitnessWindow ==
    \E w \in Workers :
        /\ pc[w] = "done"
        /\ req[w].op = "get_readings"
        /\ resp[w].status = 200
        /\ Len(resp[w].body) = 1
        /\ \E i, j \in DOMAIN readings :
              /\ readings[i].device = readings[j].device
              /\ readings[i].device = req[w].device
              /\ readings[i].created_at < req[w].cutoff
              /\ readings[j].created_at >= req[w].cutoff

\* ------------------------------------------------------------------ C7
\* The events a GET /api/sensor/log may answer; `filtered` says whether the
\* type of the query selects among them.
EventsAnswerOk(w, filtered) ==
    LET r == req[w]
        body == resp[w].body
        n == Len(body)
        limit == LimitOf(r.args)
        M == {i \in DOMAIN sensor_events :
                /\ InWindow(sensor_events[i], r)
                /\ filtered => sensor_events[i].event_type = Some(r.args.type[1])}
    IN /\ resp[w].kind = "list"
       /\ n <= limit
       /\ Cardinality(M) > limit => n = limit
       /\ \E p \in [1..n -> M] :
             /\ \A i, j \in 1..n : i # j => p[i] # p[j]
             /\ \A i \in 1..n :
                   body[i] = [event_type |-> sensor_events[p[i]].event_type,
                              message |-> sensor_events[p[i]].message,
                              uptime |-> sensor_events[p[i]].uptime_seconds,
                              heap |-> None,
                              total_measurements |-> None,
                              ts |-> isoformat(sensor_events[p[i]].created_at)]
             /\ \A k \in M :
                   (\A i \in 1..n : p[i] # k) =>
                       \A i \in 1..n : sensor_events[k].created_at
                                          <= sensor_events[p[i]].created_at
       /\ \A i, j \in 1..n : i < j => HourOf(body[i].ts) >= HourOf(body[j].ts)
       /\ filtered => \A i \in 1..n : body[i].event_type = Some(r.args.type[1])

CalibrationTexts == {MsgCalibrated.cs, MsgRecal.cs}

\* C8: GET /api/sensor/calibration answers {date: t}, t the created_at of
\* the newest event of the device whose message contains "calibrat" in any
\* letter case, whatever its age, and {date: null} when the device has no
\* such event, also when another device has one.
C8_LastCalibration ==
    \A w \in Workers :
        (pc[w] = "done" /\ req[w].op = "get_last_calibration"
                        /\ resp[w].status = 200) =>
            LET M == {i \in DOMAIN sensor_events :
                        /\ sensor_events[i].device = req[w].args.device[1]
                        /\ \E t \in CalibrationTexts :
                              sensor_events[i].message = Some(t)}
            IN IF M = {}
               THEN resp[w].body = [date |-> None]
               ELSE \E i \in M :
                      /\ \A j \in M : sensor_events[j].created_at
                                         <= sensor_events[i].created_at
                      /\ resp[w].body =
                            [date |-> Some(isoformat(sensor_events[i].created_at))]

\* Two calibration events of the device in different letter case: the date
\* is that of the newer one.
C8_Witness ==
    \E w \in Workers :
        /\ pc[w] = "done"
        /\ req[w].op = "get_last_calibration"
        /\ resp[w].status = 200
        /\ Len(sensor_events) = 2
        /\ sensor_events[1].message = Some(MsgCalibrated.cs)
        /\ sensor_events[2].message = Some(MsgRecal.cs)
        /\ \A i \in 1..2 : sensor_events[i].device = req[w].device
        /\ sensor_events[1].created_at < sensor_events[2].created_at
        /\ resp[w].body = [date |-> Some(isoformat(sensor_events[2].created_at))]

\* ------------------------------------------------------------------ C9
\* C9: every handler closes the connection it opened before it answers, on
\* success, on a storage error and on any other exception raised while the
\* connection is open; whatever the interleaving, no request that has been
\* answered leaves a connection open, and a request answered 400 has
\* opened none.
C9_ConnectionsClosed ==
    \A w \in Workers :
        /\ ~Inflight(w) => conn[w] # "open"
        /\ (pc[w] = "done" /\ resp[w].status = 400) => conn[w] = "none"
        /\ (pc[w] = "done" /\ req[w].fail \in {"none", "execute", "code", "commit"}
                           /\ resp[w].status # 400 /\ resp[w].kind # "html")
              => conn[w] = "closed"

\* A batch with a malformed entry has been answered 500 with its connection
\* closed, while another request holds its own connection open.
C9_Witness ==
    \E w, u \in Workers :
        /\ pc[w] = "done"
        /\ req[w].op = "receive_batch"
        /\ req[w].fail = "code"
        /\ resp[w].status = 500
        /\ conn[w] = "closed"
        /\ Inflight(u)
        /\ conn[u] = "open"

\* ----------------------------------------------------------------- C10
\* C10: the stored data is append-only: every step keeps the rows of
\* readings and sensor_events as they are and at most appends to them; rows
\* are appended only by the answering step of a POST that answers 200; the
\* steps of the GET handlers and the steps that answer 400 or 500 leave
\* both tables unchanged; and a worker that waits for a request holds
\* nothing of an earlier one.
C10_AppendOnly ==
    [][/\ IsPrefix(readings, readings')
       /\ IsPrefix(sensor_events, sensor_events')
       /\ readings' # readings =>
             \E w \in Workers :
                /\ Completes(w)
                /\ req[w].op \in {"receive_single", "receive_batch"}
                /\ resp'[w].status = 200
       /\ sensor_events' # sensor_events =>
             \E w \in Workers :
                /\ Completes(w)
                /\ req[w].op = "receive_event"
                /\ resp'[w].status = 200
       /\ \A w \in Workers :
             (pc'[w] # pc[w] /\ (req'[w].op \notin PostOps
                                  \/ resp'[w].status \in {400, 500})) =>
                 /\ readings' = readings
                 /\ sensor_events' = sensor_events
       /\ \A w \in Workers :
             pc'[w] = "idle" => /\ req'[w] = NoReq
                                /\ txn'[w] = <<>>
                                /\ conn'[w] = "none"
      ]_vars

\* A reading is stored, a POST whose commit failed has been answered 500
\* and a GET of another worker has been answered 200 with the stored row.
C10_Witness ==
    \E w, u \in Workers :
        /\ Len(readings) >= 1
        /\ pc[w] = "done" /\ resp[w].status = 500
        /\ req[w].op \in PostOps /\ req[w].fail = "commit"
        /\ pc[u] = "done" /\ resp[u].status = 200
        /\ req[u].op = "get_readings"
        /\ Len(resp[u].body) >= 1

====
